---- MODULE Spec2Model ----
(***************************************************************************)
(* A model of the GPK card driver of the PKCS#15 initialisation library    *)
(* (src/src/pkcs15init/pkcs15-gpk.c): the exposed operations store_key     *)
(* (gpk_new_key), init_application (gpk_init_app) and store_pin            *)
(* (gpk_new_pin), run against a model of the card they talk to.            *)
(*                                                                         *)
(* Byte strings are sequences of 0..255.  A BIGNUM is the big-endian       *)
(* magnitude BN_bn2bin produces, or NULL.  Every card operation the driver *)
(* issues is appended to log, with the bytes it passed and its result.     *)
(***************************************************************************)
EXTENDS Integers, Sequences, FiniteSets, TLC

VARIABLES
    pc,       \* position of the running request
    r,        \* the request's return value ("SC_SUCCESS" or an error name)
    key,      \* store_key: the EVP_PKEY handed in
    p,        \* store_key: struct pkdata built by the encoder
    file,     \* store_key: the key file's struct sc_file (size, crypto ACL)
    profile,  \* the profile the request runs with
    card,     \* the card: key file, its records, its private area, PIN file
    log,      \* the card operations issued so far, in order
    arg       \* init_application / store_pin: the request's arguments

vars == <<pc, r, key, p, file, profile, card, log, arg>>

----------------------------------------------------------------------------
(* Bounds of the model *)

\* Most on-card records that follow record 1 in a key file that exists
\* before the request.
MaxTail == 2

\* Card operations of one call among which a transport failure is injected
\* (no call of the driver issues more).
MaxFault == 10

----------------------------------------------------------------------------
(* Program constants *)

GPK_MAX_PINS == 8

\* sizeof(data) in gpk_pkfile_update_private, sizeof(buffer) of the readers
DataBufSize == 256

----------------------------------------------------------------------------
(* Bytes *)

\* one bit (of weight w) of a ^ b and of a | b
XorBit(a, b, w) == (((a \div w) + (b \div w)) % 2) * w
OrBit(a, b, w) == IF ((a \div w) % 2) + ((b \div w) % 2) > 0 THEN w ELSE 0

Xor8(a, b) ==
    XorBit(a, b, 1) + XorBit(a, b, 2) + XorBit(a, b, 4) + XorBit(a, b, 8)
    + XorBit(a, b, 16) + XorBit(a, b, 32) + XorBit(a, b, 64)
    + XorBit(a, b, 128)

Or8(a, b) ==
    OrBit(a, b, 1) + OrBit(a, b, 2) + OrBit(a, b, 4) + OrBit(a, b, 8)
    + OrBit(a, b, 16) + OrBit(a, b, 32) + OrBit(a, b, 64) + OrBit(a, b, 128)

Not8(a) == 255 - (a % 256)

RECURSIVE XorRange(_, _, _)
\* s[lo] ^ ... ^ s[hi]
XorRange(s, lo, hi) ==
    IF lo > hi THEN 0
    ELSE IF lo = hi THEN s[lo] % 256
    ELSE LET mid == (lo + hi) \div 2
         IN  Xor8(XorRange(s, lo, mid), XorRange(s, mid + 1, hi))

\* seed ^ s[1] ^ ... ^ s[Len(s)]
XorFold(seed, s) == Xor8(seed, XorRange(s, 1, Len(s)))

Zeros(n) == [i \in 1..n |-> 0]

----------------------------------------------------------------------------
(* BIGNUMs: big-endian magnitudes without leading zero bytes *)

NULL == <<-1>>

BN_num_bytes(bn) == Len(bn)

RECURSIVE BitLen(_)
BitLen(b) == IF b = 0 THEN 0 ELSE 1 + BitLen(b \div 2)

BN_num_bits(bn) == IF bn = <<>> THEN 0 ELSE 8 * (Len(bn) - 1) + BitLen(bn[1])

RSA_F4 == <<1, 0, 1>>

BN_is_word(bn, w) == bn = w

\* a magnitude of len bytes with the given top byte
Bn(len, top, fill) ==
    [i \in 1..len |-> IF i = 1 THEN top ELSE (fill + 3 * i) % 256]

----------------------------------------------------------------------------
(* Key components: struct pkcomp, struct pkpart, struct pkdata *)

EmptyPart == [components |-> <<>>, size |-> 0]

EmptyData ==
    [algo |-> "none", usage |-> 0, public |-> EmptyPart,
     private |-> EmptyPart, bits |-> 0, bytes |-> 0]

\* u8 temp[256] of gpk_bn2bin
TempSize == 256

\* the two asserts of gpk_bn2bin: the magnitude fits temp[], and len <= size
Bn2BinFits(bn, size) ==
    /\ BN_num_bytes(bn) <= TempSize
    /\ BN_num_bytes(bn) <= size

\* the asserts gpk_add_bignum(part, tag, bn, 0) evaluates
AddBignumFits(bn) == Bn2BinFits(bn, BN_num_bytes(bn))

\* the bytes of bn, least significant first, zero padded to size bytes
gpk_bn2bin(bn, size) ==
    [n \in 1..size |-> IF n <= Len(bn) THEN bn[Len(bn) + 1 - n] ELSE 0]

gpk_add_bignum(part, tag, bn, size0) ==
    LET size == IF size0 = 0 THEN BN_num_bytes(bn) ELSE size0
        comp == [tag |-> tag, size |-> size + 1,
                 data |-> <<tag>> \o gpk_bn2bin(bn, size)]
    IN  [part EXCEPT !.components = Append(@, comp)]

SC_ALGORITHM_RSA == "SC_ALGORITHM_RSA"
SC_ALGORITHM_DSA == "SC_ALGORITHM_DSA"

\* the private part of an RSA key whose five CRT values are present
RsaCrtPrivate(rsa, bytes) ==
    LET K == bytes \div 2
    IN  IF 5 * K < 256
        THEN LET crtbuf == <<5>> \o gpk_bn2bin(rsa.p, K)
                                 \o gpk_bn2bin(rsa.q, K)
                                 \o gpk_bn2bin(rsa.iqmp, K)
                                 \o gpk_bn2bin(rsa.dmp1, K)
                                 \o gpk_bn2bin(rsa.dmq1, K)
             IN  [EmptyPart EXCEPT !.components =
                     <<[tag |-> 5, size |-> 5 * K + 1, data |-> crtbuf]>>]
        ELSE gpk_add_bignum(
               gpk_add_bignum(
                 gpk_add_bignum(
                   gpk_add_bignum(
                     gpk_add_bignum(EmptyPart, 81, rsa.p, K),
                     82, rsa.q, K),
                   83, rsa.iqmp, K),
                 84, rsa.dmp1, K),
               85, rsa.dmq1, K)

\* every assert(len <= size) the CRT encodings evaluate holds
RsaCrtFits(rsa, bytes) ==
    \A bn \in {rsa.p, rsa.q, rsa.iqmp, rsa.dmp1, rsa.dmq1} :
        Bn2BinFits(bn, bytes \div 2)

\* gpk_encode_rsa_key: [r, p]; "ABORT" is a failed assert of gpk_bn2bin
gpk_encode_rsa_key(rsa, usage) ==
    IF rsa.n = NULL \/ rsa.e = NULL
    THEN [r |-> "SC_ERROR_INVALID_ARGUMENTS", p |-> EmptyData]
    ELSE IF ~BN_is_word(rsa.e, RSA_F4)
    THEN [r |-> "SC_ERROR_INVALID_ARGUMENTS", p |-> EmptyData]
    ELSE
      LET bits == BN_num_bits(rsa.n)
          bytes == BN_num_bytes(rsa.n)
          pub == gpk_add_bignum(gpk_add_bignum(EmptyPart, 1, rsa.n, 0),
                                7, rsa.e, 0)
          p0 == [algo |-> SC_ALGORITHM_RSA, usage |-> usage, public |-> pub,
                 private |-> EmptyPart, bits |-> bits, bytes |-> bytes]
      IN  IF ~AddBignumFits(rsa.n) \/ ~AddBignumFits(rsa.e)
          THEN [r |-> "ABORT", p |-> [p0 EXCEPT !.public = EmptyPart]]
          ELSE IF NULL \in {rsa.p, rsa.q, rsa.dmp1, rsa.dmq1, rsa.iqmp}
          THEN IF rsa.d = NULL
               THEN [r |-> "SC_ERROR_INVALID_ARGUMENTS", p |-> p0]
               ELSE IF ~AddBignumFits(rsa.d)
               THEN [r |-> "ABORT", p |-> p0]
               ELSE [r |-> "SC_SUCCESS",
                     p |-> [p0 EXCEPT !.private =
                                gpk_add_bignum(EmptyPart, 4, rsa.d, 0)]]
          ELSE IF ~RsaCrtFits(rsa, bytes)
               THEN [r |-> "ABORT", p |-> p0]
               ELSE [r |-> "SC_SUCCESS",
                     p |-> [p0 EXCEPT !.private = RsaCrtPrivate(rsa, bytes)]]

\* gpk_encode_dsa_key: [r, p]
gpk_encode_dsa_key(dsa, usage) ==
    IF NULL \in {dsa.p, dsa.q, dsa.g, dsa.pub_key, dsa.priv_key}
    THEN [r |-> "SC_ERROR_INVALID_ARGUMENTS", p |-> EmptyData]
    ELSE
      LET bytes0 == BN_num_bytes(dsa.p)
          p0 == [algo |-> SC_ALGORITHM_RSA, usage |-> usage,
                 public |-> EmptyPart, private |-> EmptyPart,
                 bits |-> BN_num_bits(dsa.p), bytes |-> bytes0]
      IN  IF bytes0 > 128
          THEN [r |-> "SC_ERROR_INVALID_ARGUMENTS", p |-> p0]
          ELSE IF \E bn \in {dsa.p, dsa.q, dsa.g, dsa.pub_key, dsa.priv_key} :
                     ~AddBignumFits(bn)
          THEN [r |-> "ABORT", p |-> p0]
          ELSE
            LET p1 == IF bytes0 <= 64
                      THEN [p0 EXCEPT !.bits = 512, !.bytes = 64]
                      ELSE [p0 EXCEPT !.bits = 1024, !.bytes = 128]
                pub == gpk_add_bignum(
                         gpk_add_bignum(
                           gpk_add_bignum(
                             gpk_add_bignum(EmptyPart, 9, dsa.p, 0),
                             10, dsa.q, 0),
                           11, dsa.g, 0),
                         12, dsa.pub_key, 0)
            IN  [r |-> "SC_SUCCESS",
                 p |-> [p1 EXCEPT !.public = pub,
                                  !.private =
                                     gpk_add_bignum(EmptyPart, 13,
                                                    dsa.priv_key, 0)]]

----------------------------------------------------------------------------
(* Length planning *)

RoundDown(x, m) == x - (x % m)

RECURSIVE SumSizes(_, _, _)
\* the loop of gpk_compute_publen / gpk_compute_privlen from component n on
SumSizes(comps, n, f) ==
    IF n > Len(comps) THEN 0
    ELSE (IF f = "pub" THEN 2 + comps[n].size
          ELSE RoundDown(3 + comps[n].size + 7, 8))
         + SumSizes(comps, n + 1, f)

gpk_compute_publen(part) ==
    [part EXCEPT !.size = RoundDown(8 + SumSizes(part.components, 1, "pub") + 3, 4)]

\* gpk_compute_privlen without the rounding to a multiple of 8
gpk_compute_privlen_Unpadded(part) ==
    [part EXCEPT !.size = 8 + SumSizes(part.components, 1, "pub")]

gpk_compute_privlen(part) ==
    [part EXCEPT !.size = 8 + SumSizes(part.components, 1, "priv")]

----------------------------------------------------------------------------
(* The card, as the driver sees it through libopensc.                      *)
(* A running call threads st = [card, log, r, comps, base]: the card, the   *)
(* operations issued, the last return value, the working copy of the       *)
(* component list (gpk_pkfile_update_public zeroes the tags in it) and the  *)
(* length of log when the call began.  A transport failure is injected     *)
(* into the fault-th card operation of the call (0: none).  A record read  *)
(* fails exactly when the record is absent; a select of an absent file     *)
(* fails with file-not-found.                                              *)

Ok(st) == st.r = "SC_SUCCESS"

Failing(st, fault) == fault = Len(st.log) - st.base + 1

Logged(st, op, n, data, res) ==
    [st EXCEPT !.log = Append(@, [op |-> op, n |-> n, data |-> data,
                                  res |-> res]),
               !.r = res]

Exists(c, path) ==
    CASE path = "keyfile" -> c.kf
      [] path = "pinfile" -> c.pf
      [] path = "df" -> c.df
      [] OTHER -> TRUE

sc_select_file(st, fault, path) ==
    Logged(st, "select_file", 0, <<>>,
           IF Failing(st, fault) THEN "SC_ERROR_CARD_CMD_FAILED"
           ELSE IF Exists(st.card, path) THEN "SC_SUCCESS"
           ELSE "SC_ERROR_FILE_NOT_FOUND")

sc_pkcs15init_create_file(st, fault, path, size) ==
    IF Failing(st, fault) \/ Exists(st.card, path)
    THEN Logged(st, "create_file", size, <<>>,
                IF Failing(st, fault) THEN "SC_ERROR_CARD_CMD_FAILED"
                ELSE "SC_ERROR_FILE_ALREADY_EXISTS")
    ELSE LET c == st.card
             c1 == CASE path = "keyfile" ->
                           [c EXCEPT !.kf = TRUE, !.kfsize = size,
                                     !.records = <<>>]
                    [] path = "pinfile" ->
                           [c EXCEPT !.pf = TRUE, !.pfsize = size]
                    [] OTHER -> [c EXCEPT !.df = TRUE]
         IN  Logged([st EXCEPT !.card = c1], "create_file", size, <<>>,
                    "SC_SUCCESS")

sc_pkcs15init_authenticate(st, fault, path, op) ==
    Logged(st, "authenticate", 0, <<>>,
           IF Failing(st, fault) THEN "SC_ERROR_SECURITY_STATUS_NOT_SATISFIED"
           ELSE "SC_SUCCESS")

\* the record is left in st.card.records[n]; r < 0 when it is absent
sc_read_record(st, n) ==
    Logged(st, "read_record", n, <<>>,
           IF n <= Len(st.card.records) THEN "SC_SUCCESS"
           ELSE "SC_ERROR_RECORD_NOT_FOUND")

sc_update_record(st, fault, n, data) ==
    IF Failing(st, fault) \/ n > Len(st.card.records)
    THEN Logged(st, "update_record", n, data,
                IF Failing(st, fault) THEN "SC_ERROR_CARD_CMD_FAILED"
                ELSE "SC_ERROR_RECORD_NOT_FOUND")
    ELSE Logged([st EXCEPT !.card.records[n] = data],
                "update_record", n, data, "SC_SUCCESS")

sc_append_record(st, fault, data) ==
    IF Failing(st, fault)
    THEN Logged(st, "append_record", 0, data, "SC_ERROR_CARD_CMD_FAILED")
    ELSE Logged([st EXCEPT !.card.records = Append(@, data)],
                "append_record", Len(st.card.records) + 1, data,
                "SC_SUCCESS")

sc_verify(st, fault) ==
    Logged(st, "verify", 1, <<>>,
           IF Failing(st, fault) THEN "SC_ERROR_PIN_CODE_INCORRECT"
           ELSE "SC_SUCCESS")

\* SC_CARDCTL_GPK_PKINIT
card_ctl_pkinit(st, fault, privlen) ==
    IF Failing(st, fault)
    THEN Logged(st, "pkinit", privlen, <<>>, "SC_ERROR_CARD_CMD_FAILED")
    ELSE Logged([st EXCEPT !.card.privinit = Append(@, privlen)],
                "pkinit", privlen, <<>>, "SC_SUCCESS")

\* SC_CARDCTL_GPK_PKLOAD
card_ctl_pkload(st, fault, data, len) ==
    IF Failing(st, fault)
    THEN Logged(st, "pkload", len, data, "SC_ERROR_CARD_CMD_FAILED")
    ELSE Logged([st EXCEPT !.card.blocks = Append(@, data)],
                "pkload", len, data, "SC_SUCCESS")

----------------------------------------------------------------------------
(* The key file writers *)

\* gpk_pkfile_create creating the file after any failure of the probe
\* (r < 0 in place of r == SC_ERROR_FILE_NOT_FOUND)
gpk_pkfile_create_AnyError(st, fault, size) ==
    LET s1 == sc_select_file(st, fault, "keyfile")
        s2 == IF ~Ok(s1)
              THEN LET s1a == sc_pkcs15init_create_file(s1, fault, "keyfile",
                                                        size)
                   IN  IF Ok(s1a) THEN sc_select_file(s1a, fault, "keyfile")
                       ELSE s1a
              ELSE s1
    IN  IF Ok(s2)
        THEN sc_pkcs15init_authenticate(s2, fault, "keyfile",
                                        "SC_AC_OP_UPDATE")
        ELSE s2

\* gpk_pkfile_create: select, or create and select, then authenticate
gpk_pkfile_create(st, fault, size) ==
    LET s1 == sc_select_file(st, fault, "keyfile")
        s2 == IF s1.r = "SC_ERROR_FILE_NOT_FOUND"
              THEN LET s1a == sc_pkcs15init_create_file(s1, fault, "keyfile",
                                                        size)
                   IN  IF Ok(s1a) THEN sc_select_file(s1a, fault, "keyfile")
                       ELSE s1a
              ELSE s1
    IN  IF Ok(s2)
        THEN sc_pkcs15init_authenticate(s2, fault, "keyfile",
                                        "SC_AC_OP_UPDATE")
        ELSE s2

\* [r, v]: the key size byte of the system record
gpk_pkfile_keybits(bits) ==
    CASE bits = 512 -> [r |-> "SC_SUCCESS", v |-> 0]
      [] bits = 768 -> [r |-> "SC_SUCCESS", v |-> 16]
      [] bits = 1024 -> [r |-> "SC_SUCCESS", v |-> 17]
      [] OTHER -> [r |-> "SC_ERROR_NOT_SUPPORTED", v |-> 0]

\* [r, v]: the algorithm byte of the system record
gpk_pkfile_keyalgo(algo) ==
    CASE algo = SC_ALGORITHM_RSA -> [r |-> "SC_SUCCESS", v |-> 0]
      [] algo = SC_ALGORITHM_DSA -> [r |-> "SC_SUCCESS", v |-> 1]
      [] OTHER -> [r |-> "SC_ERROR_NOT_SUPPORTED", v |-> 0]

RECURSIVE AclLoop_AllowTwo(_, _, _, _)
\* AclLoop refusing the third CHV entry, not the second
AclLoop_AllowTwo(acl, npins, s2, s3) ==
    IF acl = <<>> THEN [r |-> "SC_SUCCESS", s2 |-> s2, s3 |-> s3]
    ELSE LET e == Head(acl)
         IN  IF e.method \in {"SC_AC_NONE", "SC_AC_NEVER"}
             THEN AclLoop_AllowTwo(Tail(acl), npins, s2, s3)
             ELSE IF e.method # "SC_AC_CHV"
             THEN [r |-> "SC_ERROR_NOT_SUPPORTED", s2 |-> s2, s3 |-> s3]
             ELSE IF npins + 1 >= 3
             THEN [r |-> "SC_ERROR_NOT_SUPPORTED", s2 |-> s2, s3 |-> s3]
             ELSE AclLoop_AllowTwo(Tail(acl), npins + 1, (s2 + 64) % 256,
                                   Or8(s3 \div 16, (e.key_ref * 16) % 256))

RECURSIVE AclLoop(_, _, _, _)
\* the loop over the SC_AC_OP_CRYPTO entries: [r, s2, s3]
AclLoop(acl, npins, s2, s3) ==
    IF acl = <<>> THEN [r |-> "SC_SUCCESS", s2 |-> s2, s3 |-> s3]
    ELSE LET e == Head(acl)
         IN  IF e.method \in {"SC_AC_NONE", "SC_AC_NEVER"}
             THEN AclLoop(Tail(acl), npins, s2, s3)
             ELSE IF e.method # "SC_AC_CHV"
             THEN [r |-> "SC_ERROR_NOT_SUPPORTED", s2 |-> s2, s3 |-> s3]
             ELSE IF npins + 1 >= 2
             THEN [r |-> "SC_ERROR_NOT_SUPPORTED", s2 |-> s2, s3 |-> s3]
             ELSE AclLoop(Tail(acl), npins + 1, (s2 + 64) % 256,
                          Or8(s3 \div 16, (e.key_ref * 16) % 256))

\* the 7 bytes of the system record, checksum last
SysRec(kb, s2, s3, ka) ==
    LET six == <<0, kb, s2, s3, 0, ka>>
    IN  six \o <<XorFold(255, six)>>

\* PutSysRec appending the system record whatever record 1 holds
PutSysRec_AlwaysAppend(st, fault, sysrec) ==
    sc_append_record(sc_read_record(st, 1), fault, sysrec)

\* PutSysRec updating record 1 whatever it holds
PutSysRec_NoCheck(st, fault, sysrec) ==
    LET s1 == sc_read_record(st, 1)
    IN  IF Ok(s1) THEN sc_update_record(s1, fault, 1, sysrec)
        ELSE sc_append_record(s1, fault, sysrec)

\* record 1: updated in place when it reads as a system record, else appended
PutSysRec(st, fault, sysrec) ==
    LET s1 == sc_read_record(st, 1)
    IN  IF Ok(s1)
        THEN LET buffer == s1.card.records[1]
             IN  IF Len(buffer) # 7 \/ buffer[1] # 0
                 THEN [s1 EXCEPT !.r = "SC_ERROR_OBJECT_NOT_VALID"]
                 ELSE sc_update_record(s1, fault, 1, sysrec)
        ELSE sc_append_record(s1, fault, sysrec)

gpk_pkfile_init_public(st, fault, acl, algo, bits, usage) ==
    LET kb == gpk_pkfile_keybits(bits)
        ka == gpk_pkfile_keyalgo(algo)
        pins == AclLoop(acl, 0, 0, 0)
    IN  IF kb.r # "SC_SUCCESS" THEN [st EXCEPT !.r = kb.r]
        ELSE IF ka.r # "SC_SUCCESS" THEN [st EXCEPT !.r = ka.r]
        ELSE IF pins.r # "SC_SUCCESS" THEN [st EXCEPT !.r = pins.r]
        ELSE PutSysRec(st, fault, SysRec(kb.v, pins.s2, pins.s3, ka.v))

\* the first component whose (working) tag is tag, 0 when there is none
MatchIndex(comps, tag) ==
    IF \E m \in 1..Len(comps) : comps[m].tag = tag
    THEN CHOOSE m \in 1..Len(comps) :
            /\ comps[m].tag = tag
            /\ \A k \in 1..(m - 1) : comps[k].tag # tag
    ELSE 0

RECURSIVE ScanRecords(_, _, _)
\* the loop over the on-card records n, n+1, ... below 256
ScanRecords(st, fault, n) ==
    IF n >= 256 THEN [st EXCEPT !.r = "SC_SUCCESS"]
    ELSE
      LET s1 == sc_read_record(st, n)
      IN  IF ~Ok(s1) THEN [s1 EXCEPT !.r = "SC_SUCCESS"]
          ELSE
            LET buffer == s1.card.records[n]
            IN  IF Len(buffer) < 2
                THEN [s1 EXCEPT !.r = "SC_ERROR_OBJECT_NOT_VALID"]
                ELSE
                  LET m == MatchIndex(s1.comps, buffer[1])
                  IN  IF m = 0 THEN ScanRecords(s1, fault, n + 1)
                      ELSE
                        LET s2 == sc_update_record(s1, fault, n,
                                                   s1.comps[m].data)
                        IN  IF ~Ok(s2) THEN s2
                            ELSE ScanRecords(
                                   [s2 EXCEPT !.comps[m].tag = 0],
                                   fault, n + 1)

RECURSIVE AppendRemaining_KeepGoing(_, _, _)
\* AppendRemaining going on to the next component after a failed append
AppendRemaining_KeepGoing(st, fault, m) ==
    IF m > Len(st.comps) THEN st
    ELSE IF st.comps[m].tag # 0
         THEN AppendRemaining_KeepGoing(
                sc_append_record(st, fault, st.comps[m].data), fault, m + 1)
         ELSE AppendRemaining_KeepGoing(st, fault, m + 1)

RECURSIVE AppendRemaining(_, _, _)
\* the loop appending the components m, m+1, ... whose tag is not zeroed
AppendRemaining(st, fault, m) ==
    IF ~Ok(st) \/ m > Len(st.comps) THEN st
    ELSE IF st.comps[m].tag # 0
         THEN AppendRemaining(
                sc_append_record(st, fault, st.comps[m].data), fault, m + 1)
         ELSE AppendRemaining(st, fault, m + 1)

\* gpk_pkfile_update_public appending every component after the scan,
\* stored or not
gpk_pkfile_update_public_AppendAll(st, fault, part) ==
    LET s1 == ScanRecords([st EXCEPT !.comps = part.components], fault, 2)
    IN  IF ~Ok(s1) THEN s1
        ELSE AppendRemaining([s1 EXCEPT !.comps = part.components], fault, 1)

gpk_pkfile_update_public(st, fault, part) ==
    LET s1 == ScanRecords([st EXCEPT !.comps = part.components], fault, 2)
    IN  IF ~Ok(s1) THEN s1 ELSE AppendRemaining(s1, fault, 1)

gpk_pkfile_init_private(st, fault, privlen) ==
    card_ctl_pkinit(st, fault, privlen)

\* PrivateBlock folding the checksum from 0x00
PrivateBlock_SeedZero(data) ==
    LET nb == Len(data) + 1
    IN  data \o <<XorFold(0, data)>> \o Zeros((8 - (nb % 8)) % 8)

\* data[0..nb): the payload, its checksum, zeroes up to a multiple of 8
PrivateBlock(data) ==
    LET size == Len(data)
        cks == XorFold(255, data)
        nb == size + 1
        pad == (8 - (nb % 8)) % 8
    IN  data \o <<cks>> \o Zeros(pad)

gpk_pkfile_load_private(st, fault, data, len) ==
    card_ctl_pkload(st, fault, data, len)

RECURSIVE LoadComponents_VerifyOnce(_, _, _, _)
\* LoadComponents verifying the secure messaging key before the first
\* component only
LoadComponents_VerifyOnce(st, fault, comps, m) ==
    IF m > Len(comps) THEN st
    ELSE
      LET pe == comps[m]
      IN  IF pe.size + 8 > DataBufSize
          THEN [st EXCEPT !.r = "SC_ERROR_BUFFER_TOO_SMALL"]
          ELSE
            LET s1 == IF m = 1 THEN sc_verify(st, fault) ELSE st
            IN  IF ~Ok(s1) THEN s1
                ELSE
                  LET s2 == card_ctl_pkload(s1, fault, PrivateBlock(pe.data),
                                            pe.size)
                  IN  IF ~Ok(s2) THEN s2
                      ELSE LoadComponents_VerifyOnce(s2, fault, comps, m + 1)

RECURSIVE LoadComponents(_, _, _, _)
\* the loop over the private components m, m+1, ...
LoadComponents(st, fault, comps, m) ==
    IF m > Len(comps) THEN st
    ELSE
      LET pe == comps[m]
      IN  IF pe.size + 8 > DataBufSize
          THEN [st EXCEPT !.r = "SC_ERROR_BUFFER_TOO_SMALL"]
          ELSE
            LET s1 == sc_verify(st, fault)
            IN  IF ~Ok(s1) THEN s1
                ELSE
                  LET s2 == gpk_pkfile_load_private(s1, fault,
                                PrivateBlock(pe.data), pe.size)
                  IN  IF ~Ok(s2) THEN s2
                      ELSE LoadComponents(s2, fault, comps, m + 1)

gpk_pkfile_update_private(st, fault, secret, part) ==
    IF ~secret
    THEN [st EXCEPT !.r = "SC_ERROR_SECURITY_STATUS_NOT_SATISFIED"]
    ELSE LoadComponents([st EXCEPT !.r = "SC_SUCCESS"], fault,
                        part.components, 1)

----------------------------------------------------------------------------
(* Requests: the keys, profiles and cards a request may meet *)

RsaKey(nbytes, top, e, crt, d) ==
    LET K == nbytes \div 2
    IN  [type |-> "EVP_PKEY_RSA", usage |-> 4,
         n |-> IF nbytes = 0 THEN NULL ELSE Bn(nbytes, top, 1),
         e |-> e,
         d |-> IF d THEN Bn(nbytes, 64, 2) ELSE NULL,
         p |-> IF crt THEN Bn(K, 192, 3) ELSE NULL,
         q |-> IF crt THEN Bn(K, 160, 4) ELSE NULL,
         dmp1 |-> IF crt THEN Bn(K - 1, 9, 5) ELSE NULL,
         dmq1 |-> IF crt THEN Bn(K, 17, 6) ELSE NULL,
         iqmp |-> IF crt THEN Bn(K, 33, 7) ELSE NULL,
         g |-> NULL, pub_key |-> NULL, priv_key |-> NULL]

DsaKey(pbytes, priv) ==
    [type |-> "EVP_PKEY_DSA", usage |-> 4,
     n |-> NULL, e |-> NULL, d |-> NULL, dmp1 |-> NULL, dmq1 |-> NULL,
     iqmp |-> NULL,
     p |-> Bn(pbytes, 129, 8),
     q |-> Bn(20, 130, 9),
     g |-> Bn(pbytes, 5, 10),
     pub_key |-> Bn(pbytes, 6, 11),
     priv_key |-> IF priv THEN Bn(20, 7, 12) ELSE NULL]

Keys ==
    { RsaKey(64, 128, RSA_F4, TRUE, TRUE),     \* 512 bits, CRT in one record
      RsaKey(96, 128, RSA_F4, TRUE, FALSE),    \* 768 bits, CRT in one record
      RsaKey(128, 128, RSA_F4, TRUE, TRUE),    \* 1024 bits, five CRT records
      RsaKey(128, 255, RSA_F4, FALSE, TRUE),   \* 1024 bits, d only
      RsaKey(64, 32, RSA_F4, TRUE, TRUE),      \* 510 bits
      RsaKey(256, 128, RSA_F4, TRUE, TRUE),    \* 2048 bits
      RsaKey(64, 128, RSA_F4, FALSE, FALSE),   \* neither CRT values nor d
      RsaKey(64, 128, <<3>>, TRUE, TRUE),      \* exponent 3
      RsaKey(0, 0, RSA_F4, TRUE, TRUE),        \* no modulus
      DsaKey(64, TRUE),                        \* 512 bits
      DsaKey(96, TRUE),                        \* 768 bits, stored as 1024
      DsaKey(128, TRUE),                       \* 1024 bits
      DsaKey(129, TRUE),                       \* too long
      DsaKey(64, FALSE),                       \* no private value
      [DsaKey(64, TRUE) EXCEPT !.q = NULL],    \* no q
      RsaKey(64, 128, NULL, TRUE, TRUE),       \* no exponent
      \* one CRT value missing, with and without d
      [RsaKey(64, 128, RSA_F4, TRUE, TRUE) EXCEPT !.dmq1 = NULL],
      [RsaKey(64, 128, RSA_F4, TRUE, FALSE) EXCEPT !.iqmp = NULL],
      \* 512 bits, primes of 33 and 31 bytes
      [RsaKey(64, 128, RSA_F4, TRUE, TRUE) EXCEPT !.p = Bn(33, 1, 3),
                                                  !.q = Bn(31, 255, 4)],
      \* 1024 bits, d only, d of 250 bytes
      [RsaKey(128, 255, RSA_F4, FALSE, TRUE) EXCEPT !.d = Bn(250, 64, 2)],
      RsaKey(258, 128, RSA_F4, FALSE, TRUE),   \* 2064 bits
      [RsaKey(0, 0, NULL, FALSE, FALSE) EXCEPT !.type = "EVP_PKEY_DH"] }

Chv(ref) == [method |-> "SC_AC_CHV", key_ref |-> ref]

DefaultProfile ==
    [secret |-> TRUE, templates |-> {"private-key", "data"},
     acl |-> <<Chv(8)>>, pinfile |-> TRUE, pin_attempts |-> 0,
     puk_attempts |-> 0, pinsize |-> 0, pinwrite |-> "SC_AC_NEVER"]

\* the default profile, and the profiles that differ from it in one place
KeyProfiles ==
    { DefaultProfile,
      [DefaultProfile EXCEPT !.secret = FALSE],
      [DefaultProfile EXCEPT !.templates = {"private-key"}],
      [DefaultProfile EXCEPT !.templates = {"data"}],
      [DefaultProfile EXCEPT !.acl = <<>>],
      [DefaultProfile EXCEPT !.acl =
          <<[method |-> "SC_AC_NONE", key_ref |-> 0], Chv(12)>>],
      [DefaultProfile EXCEPT !.acl = <<Chv(8), Chv(12)>>],
      [DefaultProfile EXCEPT !.acl =
          <<[method |-> "SC_AC_NEVER", key_ref |-> 0], Chv(26),
            [method |-> "SC_AC_NONE", key_ref |-> 0]>>],
      [DefaultProfile EXCEPT !.acl =
          <<[method |-> "SC_AC_PRO", key_ref |-> 1]>>] }

EmptyCard ==
    [kf |-> FALSE, kfsize |-> 0, records |-> <<>>, privinit |-> <<>>,
     blocks |-> <<>>, df |-> TRUE, pf |-> FALSE, pfsize |-> 0,
     pfdata |-> <<>>, pflocked |-> FALSE, refs |-> <<>>]

\* what record 1 of an existing key file may be
FirstRecords ==
    { SysRec(17, 0, 0, 0),          \* the system record of an earlier key
      <<1, 17, 0, 0, 0, 0, 238>>,   \* 7 bytes, first byte not zero
      <<0, 17>> }                   \* not 7 bytes

\* what the records after it may be
TailRecords ==
    { <<1, 170, 171>>,              \* tag 0x01, an RSA modulus
      <<0, 187>>,                   \* leading byte 0x00
      <<12, 204>>,                  \* tag 0x0c, a DSA public value
      <<51, 221>>,                  \* a tag of no key component
      <<5>> }                       \* too short to be a record

RECURSIVE SeqsUpTo(_, _)
\* the sequences over S of length at most n
SeqsUpTo(S, n) ==
    IF n = 0 THEN {<<>>}
    ELSE LET shorter == SeqsUpTo(S, n - 1)
         IN  shorter \cup {Append(t, x) : t \in shorter, x \in S}

KeyFiles ==
    {<<>>} \cup {<<f>> \o t : f \in FirstRecords,
                              t \in SeqsUpTo(TailRecords, MaxTail)}

KeyCards ==
    {EmptyCard} \cup
    {[EmptyCard EXCEPT !.kf = TRUE, !.kfsize = 512, !.records = recs] :
        recs \in KeyFiles}

\* every card under the default profile, every profile on three cards
KeyScenes ==
    {<<DefaultProfile, c>> : c \in KeyCards} \cup
    {<<q, c>> : q \in KeyProfiles,
                c \in {EmptyCard,
                       [EmptyCard EXCEPT !.kf = TRUE, !.kfsize = 512],
                       [EmptyCard EXCEPT !.kf = TRUE, !.kfsize = 512,
                                         !.records =
                                            <<SysRec(17, 0, 0, 0)>>]}}

NoFile == [valid |-> FALSE, size |-> 0, acl |-> <<>>]

----------------------------------------------------------------------------
(* store_key *)

\* gpk_new_file for a private key file: [r, file]
gpk_new_file(prof, type) ==
    LET tag == CASE type = "SC_PKCS15_TYPE_PRKEY_RSA" -> "private-key"
                 [] type = "SC_PKCS15_TYPE_PRKEY_DSA" -> "data"
                 [] OTHER -> "none"
    IN  IF tag = "none"
        THEN [r |-> "SC_ERROR_INVALID_ARGUMENTS", file |-> NoFile]
        ELSE IF tag \notin prof.templates
        THEN [r |-> "SC_ERROR_NOT_SUPPORTED", file |-> NoFile]
        ELSE [r |-> "SC_SUCCESS",
              file |-> [valid |-> TRUE, size |-> 0, acl |-> prof.acl]]

\* sc_pkcs15init_fixup_file: resolves the PIN references of the file's ACLs
sc_pkcs15init_fixup_file(prof, f) == [r |-> "SC_SUCCESS", file |-> f]

St ==
    [card |-> card, log |-> log, r |-> "SC_SUCCESS", comps |-> <<>>,
     base |-> Len(log)]

\* Returned going on at next whatever the call returned
Returned_Ignoring(s, next) ==
    /\ card' = s.card
    /\ log' = s.log
    /\ r' = s.r
    /\ pc' = next

\* the call returned: go on at next, or return its error to the caller
Returned(s, next) ==
    /\ card' = s.card
    /\ log' = s.log
    /\ r' = s.r
    /\ pc' = IF Ok(s) THEN next ELSE "done"

Init ==
    /\ pc = "idle"
    /\ r = "SC_SUCCESS"
    /\ key = [type |-> "none"]
    /\ p = EmptyData
    /\ file = NoFile
    /\ \E scene \in KeyScenes :
         /\ profile = scene[1]
         /\ card = scene[2]
    /\ log = <<>>
    /\ arg = [op |-> "none"]

\* what is kept of the key once RSA_free / DSA_free released it
KeyInfo(k) ==
    LET m == IF k.type = "EVP_PKEY_RSA" THEN k.n ELSE k.p
    IN  [type |-> k.type,
         bits |-> IF m = NULL THEN 0 ELSE BN_num_bits(m),
         bytes |-> IF m = NULL THEN 0 ELSE BN_num_bytes(m),
         f4 |-> k.e = RSA_F4,
         crt |-> NULL \notin {k.p, k.q, k.dmp1, k.dmq1, k.iqmp},
         d |-> k.d # NULL,
         complete |-> NULL \notin {k.p, k.q, k.g, k.pub_key, k.priv_key},
         widest |-> LET present == {k.p, k.q, k.dmp1, k.dmq1, k.iqmp}
                                       \ {NULL}
                    IN  IF present = {} THEN 0
                        ELSE CHOOSE w \in {Len(bn) : bn \in present} :
                               \A bn \in present : Len(bn) <= w]

\* RSA_size / DSA_size read the modulus (of a DSA key, q) without testing
\* the pointer: what the call comes to
RSA_size(rsa) == IF rsa.n = NULL THEN {"returns", "SIGSEGV"} ELSE {"returns"}

DSA_size(dsa) == IF dsa.q = NULL THEN {"returns", "SIGSEGV"} ELSE {"returns"}

\* gpk_new_key up to its call of gpk_store_pk
gpk_new_key ==
    /\ pc = "idle"
    /\ arg' = [op |-> "store_key"]
    /\ \E k \in Keys :
         /\ key' = KeyInfo(k)
         /\ IF k.type \notin {"EVP_PKEY_RSA", "EVP_PKEY_DSA"}
            THEN /\ r' = "SC_ERROR_NOT_SUPPORTED"
                 /\ pc' = "done"
                 /\ UNCHANGED <<p, file>>
            ELSE
              LET nf == gpk_new_file(profile,
                          IF k.type = "EVP_PKEY_RSA"
                          THEN "SC_PKCS15_TYPE_PRKEY_RSA"
                          ELSE "SC_PKCS15_TYPE_PRKEY_DSA")
                  enc == IF k.type = "EVP_PKEY_RSA"
                         THEN gpk_encode_rsa_key(k, k.usage)
                         ELSE gpk_encode_dsa_key(k, k.usage)
                  fix == sc_pkcs15init_fixup_file(profile, nf.file)
              IN  IF nf.r # "SC_SUCCESS"
                  THEN \* keyfile was never assigned and is read and freed
                       /\ r' \in {nf.r, "SIGSEGV"}
                       /\ pc' = "done"
                       /\ UNCHANGED <<p, file>>
                  ELSE IF enc.r = "ABORT"
                  THEN /\ r' = "SIGABRT"
                       /\ pc' = "done"
                       /\ p' = enc.p
                       /\ file' = nf.file
                  ELSE \E size \in IF k.type = "EVP_PKEY_RSA"
                                   THEN RSA_size(k) ELSE DSA_size(k) :
                         IF size = "SIGSEGV"
                         THEN /\ r' = "SIGSEGV"
                              /\ pc' = "done"
                              /\ p' = enc.p
                              /\ file' = nf.file
                         ELSE /\ p' = enc.p
                              /\ file' = fix.file
                              /\ r' = IF enc.r # "SC_SUCCESS" THEN enc.r
                                      ELSE fix.r
                              /\ pc' = IF enc.r = "SC_SUCCESS"
                                          /\ fix.r = "SC_SUCCESS"
                                       THEN "store_pk" ELSE "done"
    /\ UNCHANGED <<profile, card, log>>

\* gpk_store_pk: the lengths, the file size, and gpk_pkfile_create
gpk_store_pk ==
    /\ pc = "store_pk"
    /\ \E fault \in 0..MaxFault :
         LET pub == gpk_compute_publen(p.public)
             priv == gpk_compute_privlen(p.private)
             size == pub.size + 8 + priv.size + 8
         IN  /\ p' = [p EXCEPT !.public = pub, !.private = priv]
             /\ file' = [file EXCEPT !.size = size]
             /\ Returned(gpk_pkfile_create(St, fault, size), "init_public")
    /\ UNCHANGED <<key, profile, arg>>

\* gpk_store_pk: put the system record
StoreInitPublic ==
    /\ pc = "init_public"
    /\ \E fault \in 0..MaxFault :
         Returned(gpk_pkfile_init_public(St, fault, file.acl, p.algo,
                                            p.bits, p.usage),
                     "update_public")
    /\ UNCHANGED <<key, p, file, profile, arg>>

\* gpk_store_pk: put the public key elements
StoreUpdatePublic ==
    /\ pc = "update_public"
    /\ \E fault \in 0..MaxFault :
         LET s == gpk_pkfile_update_public(St, fault, p.public)
            IN  /\ Returned(s, "init_private")
                /\ p' = [p EXCEPT !.public.components = s.comps]
    /\ UNCHANGED <<key, file, profile, arg>>

\* gpk_store_pk: create the private key part
StoreInitPrivate ==
    /\ pc = "init_private"
    /\ \E fault \in 0..MaxFault :
         Returned(gpk_pkfile_init_private(St, fault, p.private.size),
                     "update_private")
    /\ UNCHANGED <<key, p, file, profile, arg>>

\* gpk_store_pk: store the private key elements, and return
StoreUpdatePrivate ==
    /\ pc = "update_private"
    /\ \E fault \in 0..MaxFault :
         Returned(gpk_pkfile_update_private(St, fault, profile.secret,
                                               p.private),
                     "done")
    /\ UNCHANGED <<key, p, file, profile, arg>>

Next ==
    \/ gpk_new_key
    \/ gpk_store_pk
    \/ StoreInitPublic
    \/ StoreUpdatePublic
    \/ StoreInitPrivate
    \/ StoreUpdatePrivate

Spec == Init /\ [][Next]_vars

----------------------------------------------------------------------------
(* store_key of the same key again, on the key file the first run left *)

\* part as the encoder builds it anew: each component carries the tag that
\* is the first byte of its data
Fresh(part) ==
    [part EXCEPT !.components =
        [m \in 1..Len(part.components) |->
            [part.components[m] EXCEPT !.tag = part.components[m].data[1]]]]

\* the first run put the system record and the public key elements
PublicStored ==
    \/ pc = "init_private"
    \/ pc = "done" /\ \E i \in 1..Len(log) : log[i].op = "pkinit"

\* gpk_store_pk, second run: put the system record, then the public key
\* elements; arg keeps the records the run found
Reprovision ==
    /\ PublicStored
    /\ \E fault \in 0..MaxFault :
         LET st0 == [card |-> card, log |-> <<>>, r |-> "SC_SUCCESS",
                     comps |-> <<>>, base |-> 0]
             s1 == gpk_pkfile_init_public(st0, fault, file.acl, p.algo,
                                          p.bits, p.usage)
             s2 == IF Ok(s1)
                   THEN gpk_pkfile_update_public(s1, fault, Fresh(p.public))
                   ELSE s1
         IN  /\ card' = s2.card
             /\ log' = s2.log
             /\ r' = s2.r
    /\ pc' = "redone"
    /\ arg' = [op |-> "store_key", before |-> card.records]
    /\ UNCHANGED <<key, p, file, profile>>

NextAgain ==
    \/ Next
    \/ Reprovision

SpecAgain == Init /\ [][NextAgain]_vars

----------------------------------------------------------------------------
(* init_application and store_pin *)

sc_write_binary(st, fault, data, count) ==
    IF Failing(st, fault)
    THEN Logged(st, "write_binary", count, data, "SC_ERROR_CARD_CMD_FAILED")
    ELSE Logged([st EXCEPT !.card.pfdata = data],
                "write_binary", count, data, "SC_SUCCESS")

\* gpk_lock: SC_CARDCTL_GPK_LOCK on the PIN file
gpk_lock(st, fault, op) ==
    IF Failing(st, fault)
    THEN Logged(st, "lock", 0, <<>>, "SC_ERROR_CARD_CMD_FAILED")
    ELSE Logged([st EXCEPT !.card.pflocked = TRUE], "lock", 0, <<>>,
                "SC_SUCCESS")

sc_change_reference_data(st, fault, ref, new) ==
    IF Failing(st, fault)
    THEN Logged(st, "change_reference_data", ref, new,
                "SC_ERROR_PIN_CODE_INCORRECT")
    ELSE Logged([st EXCEPT !.card.refs = Append(@, ref)],
                "change_reference_data", ref, new, "SC_SUCCESS")

\* gpk_lock_pinfile ignoring the result of the authentication
gpk_lock_pinfile_NoAuthCheck(st, fault) ==
    LET s1 == sc_select_file(st, fault, "df")
    IN  IF ~Ok(s1) THEN s1
        ELSE gpk_lock(sc_pkcs15init_authenticate(s1, fault, "df",
                                                 "SC_AC_OP_LOCK"),
                      fault, "SC_AC_OP_WRITE")

gpk_lock_pinfile(st, fault) ==
    LET s1 == sc_select_file(st, fault, "df")
    IN  IF ~Ok(s1) THEN s1
        ELSE LET s2 == sc_pkcs15init_authenticate(s1, fault, "df",
                                                  "SC_AC_OP_LOCK")
             IN  IF Ok(s2) THEN gpk_lock(s2, fault, "SC_AC_OP_WRITE")
                 ELSE s2

\* the 8 bytes of row i of the slot table, built over the 8 bytes old
PinRow(i, npins, pin_attempts, puk_attempts, old) ==
    LET b0 == IF (i % 1) = 0 THEN pin_attempts % 256
              ELSE puk_attempts % 256
        b2 == IF (i % 1) = 0 /\ i + 1 < npins THEN Or8(8, i + 1) ELSE old[3]
        blk == [old EXCEPT ![1] = b0, ![3] = b2]
        cks == XorFold(0, blk)
    IN  [blk EXCEPT ![4] = Not8(cks)]

RECURSIVE PinTable(_, _, _, _, _)
\* rows i, i+1, ... of the slot table, one after the other; the rows of
\* buffer[] start zeroed, the memory behind buffer[] holds stray
PinTable(i, npins, pin_attempts, puk_attempts, stray) ==
    IF i >= npins THEN <<>>
    ELSE PinRow(i, npins, pin_attempts, puk_attempts,
                IF i < GPK_MAX_PINS THEN Zeros(8) ELSE stray)
         \o PinTable(i + 1, npins, pin_attempts, puk_attempts, stray)

\* what lies behind buffer[] on the stack, and whether writing there faults
StackOutcomes ==
    {[crash |-> TRUE, stray |-> Zeros(8)],
     [crash |-> FALSE, stray |-> Zeros(8)],
     [crash |-> FALSE, stray |-> <<165, 90, 0, 60, 1, 2, 3, 4>>]}

\* gpk_init_pinfile; ub is what overrunning buffer[] leads to
gpk_init_pinfile(st, fault, prof, ub) ==
    LET pin_attempts == IF prof.pin_attempts = 0 THEN 7
                        ELSE prof.pin_attempts
        puk_attempts == IF prof.puk_attempts = 0 THEN 3
                        ELSE prof.puk_attempts
        size == IF prof.pinsize = 0 THEN GPK_MAX_PINS * 8 ELSE prof.pinsize
        npins == size \div 8
    IN  IF prof.pinwrite # "SC_AC_NEVER"
        THEN [st EXCEPT !.r = "SC_ERROR_INVALID_ARGUMENTS"]
        ELSE
          LET s1 == sc_pkcs15init_create_file(st, fault, "pinfile", size)
              s2 == IF Ok(s1) THEN sc_select_file(s1, fault, "pinfile")
                    ELSE s1
          IN  IF ~Ok(s2) THEN s2
              ELSE IF npins > GPK_MAX_PINS /\ ub.crash
              THEN [s2 EXCEPT !.r = "SIGSEGV"]
              ELSE
                LET s3 == sc_write_binary(s2, fault,
                              PinTable(0, npins, pin_attempts, puk_attempts,
                                       ub.stray),
                              npins * 8)
                IN  IF Ok(s3) THEN gpk_lock_pinfile(s3, fault) ELSE s3

PinProfiles ==
    {[DefaultProfile EXCEPT !.pinsize = sz, !.pin_attempts = a[1],
                            !.puk_attempts = a[2]] :
        sz \in {0, 8, 16, 24, 72}, a \in {<<0, 0>>, <<5, 2>>}}
    \cup {[DefaultProfile EXCEPT !.pinfile = FALSE],
          [DefaultProfile EXCEPT !.pinwrite = "SC_AC_NONE"]}

\* a card without the application, and one holding it
PinCards ==
    {[EmptyCard EXCEPT !.df = FALSE],
     [EmptyCard EXCEPT !.pf = TRUE, !.pfsize = 64,
                       !.pfdata = PinTable(0, 8, 7, 3, Zeros(8)), !.pflocked = TRUE]}

\* An unsigned int (32 bits) as its two 16-bit halves: the value is
\* hi * 2^16 + lo.
Half == 2^16

UInt(hi, lo) == [hi |-> hi, lo |-> lo]

\* u << n for n < 16, in 32 bits
ShiftLeft(u, n) ==
    LET lo == u.lo * 2^n
        hi == u.hi * 2^n + lo \div Half
    IN  UInt(hi % Half, lo % Half)

\* u >= n and u < n for n < 2^16
AtLeast(u, n) == u.hi > 0 \/ u.lo >= n

\* the index argument of store_pin
PinIndexes ==
    { UInt(0, 0), UInt(0, 1), UInt(0, 2), UInt(0, 3),
      UInt(16383, 65535),                      \* 2^30 - 1
      UInt(16384, 0), UInt(16384, 1),          \* 2^30, 2^30 + 1
      UInt(16384, 2),
      UInt(32768, 0),                          \* 2^31
      UInt(65535, 65535) }                     \* 2^32 - 1

InitPin ==
    /\ pc = "idle"
    /\ r = "SC_SUCCESS"
    /\ key = [type |-> "none"]
    /\ p = EmptyData
    /\ file = NoFile
    /\ profile \in PinProfiles
    /\ card \in PinCards
    /\ log = <<>>
    /\ arg = [op |-> "none"]

\* gpk_init_app up to its call of gpk_init_pinfile
gpk_init_app ==
    /\ pc = "idle"
    /\ \E so_pin \in BOOLEAN, fault \in 0..MaxFault :
         /\ arg' = [op |-> "init_app", pin |-> so_pin]
         /\ IF so_pin \/ ~profile.pinfile
            THEN /\ r' = "SC_ERROR_NOT_SUPPORTED"
                 /\ pc' = "done"
                 /\ UNCHANGED <<card, log>>
            ELSE Returned(sc_pkcs15init_create_file(St, fault, "df", 0),
                          "init_pinfile")
    /\ UNCHANGED <<key, p, file, profile>>

\* gpk_init_app: create the PIN file, and return
InitPinfile ==
    /\ pc = "init_pinfile"
    /\ \E fault \in 0..MaxFault, ub \in StackOutcomes :
         Returned(gpk_init_pinfile(St, fault, profile, ub), "done")
    /\ UNCHANGED <<key, p, file, profile, arg>>

\* gpk_new_pin; puk is <<>> when the caller gave none
gpk_new_pin_body(st, fault, prof, index0, pin, puk0) ==
    IF ~prof.pinfile THEN [st EXCEPT !.r = "SC_ERROR_INVALID_ARGUMENTS"]
    ELSE
      LET s1 == sc_select_file(st, fault, "df")
          index == ShiftLeft(index0, 2)
          puk == IF puk0 = <<>> THEN pin ELSE puk0
      IN  IF ~Ok(s1) THEN s1
          ELSE IF AtLeast(index, GPK_MAX_PINS)
          THEN [s1 EXCEPT !.r = "SC_ERROR_TOO_MANY_OBJECTS"]
          ELSE
            LET s2 == sc_change_reference_data(s1, fault,
                                               Or8(8, index.lo), pin)
            IN  IF ~Ok(s2) THEN s2
                ELSE sc_change_reference_data(s2, fault,
                                              Or8(8, index.lo + 1), puk)

gpk_new_pin ==
    /\ pc = "idle"
    /\ \E index \in PinIndexes, puk \in {<<>>, <<9, 9, 9, 9>>},
          fault \in 0..MaxFault :
         /\ arg' = [op |-> "new_pin", index |-> index, puk |-> puk]
         /\ LET s == gpk_new_pin_body(St, fault, profile, index,
                                      <<1, 2, 3, 4>>, puk)
            IN  /\ card' = s.card
                /\ log' = s.log
                /\ r' = s.r
                /\ pc' = "done"
    /\ UNCHANGED <<key, p, file, profile>>

NextPin ==
    \/ gpk_init_app
    \/ InitPinfile
    \/ gpk_new_pin

SpecPin == InitPin /\ [][NextPin]_vars

----------------------------------------------------------------------------
(* Reading the log *)

IsWrite(e) == e.op \in {"update_record", "append_record"}

\* a write of the system record: 7 bytes, the first zero
IsSysWrite(e) == IsWrite(e) /\ Len(e.data) = 7 /\ e.data[1] = 0

\* a write of a key component record
IsCompWrite(e) == IsWrite(e) /\ ~IsSysWrite(e)

PrivPayloads == {p.private.components[m].data :
                    m \in 1..Len(p.private.components)}

\* the step of gpk_store_pk a logged operation belongs to
Phase(e) ==
    CASE e.op \in {"select_file", "create_file", "authenticate"} -> 1
      [] e.op = "read_record" -> IF e.n = 1 THEN 2 ELSE 3
      [] IsSysWrite(e) -> 2
      [] IsCompWrite(e) -> 3
      [] e.op = "pkinit" -> 4
      [] e.op \in {"verify", "pkload"} -> 5
      [] OTHER -> 0

Count(op, upto) == Cardinality({i \in 1..upto : log[i].op = op})

Succeeded(e) == e.res = "SC_SUCCESS"

----------------------------------------------------------------------------
(* C1: every load of a private block comes directly after a successful     *)
(* verify of the secure-messaging key made for that component (one verify  *)
(* per load, nothing between them), the block loaded is the block of a     *)
(* private component, and no private payload is passed to any other card   *)
(* operation.                                                              *)
C1_PrivateOnlyUnderSecureMessaging ==
    LET payloads == PrivPayloads
        blocks == {PrivateBlock(d) : d \in payloads}
    IN  \A i \in 1..Len(log) :
           IF log[i].op = "pkload"
           THEN /\ i > 1
                /\ log[i - 1].op = "verify"
                /\ Succeeded(log[i - 1])
                /\ Count("verify", i) = Count("pkload", i)
                /\ log[i].data \in blocks
           ELSE log[i].data = <<>>
                \/ (log[i].data \notin payloads /\ log[i].data \notin blocks)

\* all five CRT records of a 1024-bit key were loaded
C1_Witness ==
    /\ pc = "done"
    /\ r = "SC_SUCCESS"
    /\ Len(card.blocks) = 5
    /\ Count("verify", Len(log)) = 5

(* C2: the system record is written, as record 1, before any component     *)
(* record is written and before any private block is loaded; after a       *)
(* successful store_key record 1 of the key file is that 7-byte record.    *)
C2_SystemRecordFirst ==
    /\ \A i \in 1..Len(log) :
          (IsCompWrite(log[i]) \/ log[i].op = "pkload") =>
             \E j \in 1..(i - 1) :
                 IsSysWrite(log[j]) /\ Succeeded(log[j]) /\ log[j].n = 1
    /\ (pc = "done" /\ r = "SC_SUCCESS") =>
          /\ Len(card.records) >= 1
          /\ Len(card.records[1]) = 7
          /\ card.records[1][1] = 0
          /\ card.records[1][7] = XorFold(255, SubSeq(card.records[1], 1, 6))
          /\ \E j \in 1..Len(log) :
                /\ IsSysWrite(log[j])
                /\ log[j].n = 1
                /\ card.records[1] = log[j].data
                /\ \A k \in 1..Len(log) : IsSysWrite(log[k]) => k = j

\* a key stored into a file that already held another key's system record
C2_Witness ==
    /\ pc = "done"
    /\ r = "SC_SUCCESS"
    /\ \E j \in 1..Len(log) :
          /\ log[j].op = "update_record"
          /\ log[j].n = 1
          /\ log[j].data # SysRec(17, 0, 0, 0)

(* C3: the steps of gpk_store_pk run in the order ensure file, system      *)
(* record, public components, private area, private components; a step     *)
(* issues card operations only after every earlier step succeeded; the     *)
(* private area is initialised once, before the first load; the request    *)
(* returns the error of the step that failed.                              *)
C3_StepsInOrder ==
    /\ \A i, j \in 1..Len(log) : i < j => Phase(log[i]) <= Phase(log[j])
    /\ \A i \in 1..Len(log) :
          /\ Phase(log[i]) >= 2 =>
                /\ file.size = p.public.size + 8 + p.private.size + 8
                /\ \E j \in 1..(i - 1) :
                      log[j].op = "authenticate" /\ Succeeded(log[j])
          /\ Phase(log[i]) >= 3 =>
                \E j \in 1..(i - 1) : IsSysWrite(log[j]) /\ Succeeded(log[j])
          /\ Phase(log[i]) >= 4 =>
                /\ \A j \in 1..(i - 1) : IsWrite(log[j]) => Succeeded(log[j])
                /\ \A j \in 1..(i - 1) :
                      (log[j].op = "read_record" /\ Succeeded(log[j]))
                         => Len(card.records[log[j].n]) >= 2
          /\ Phase(log[i]) >= 5 =>
                \E j \in 1..(i - 1) : log[j].op = "pkinit" /\ Succeeded(log[j])
          /\ (i < Len(log) /\ log[i].op \in {"verify", "pkload"})
                => Succeeded(log[i])
    /\ Count("pkinit", Len(log)) <= 1
    /\ (pc = "done" /\ log # <<>>) =>
          /\ (~Succeeded(log[Len(log)]) /\ log[Len(log)].op # "read_record")
                => r = log[Len(log)].res
          /\ r = "SC_SUCCESS" =>
                /\ Count("pkinit", Len(log)) = 1
                /\ Count("pkload", Len(log)) = Len(p.private.components)
                /\ \A i \in 1..Len(log) :
                      log[i].op # "read_record"
                      /\ ~(i = 1 /\ log[i].res = "SC_ERROR_FILE_NOT_FOUND")
                         => Succeeded(log[i])

\* a request that failed in its last step, after the private area was made
C3_Witness ==
    /\ pc = "done"
    /\ r = "SC_ERROR_CARD_CMD_FAILED"
    /\ Count("pkinit", Len(log)) = 1
    /\ Count("pkload", Len(log)) = 3
    /\ Len(card.blocks) = 2

(* C9: gpk_pkfile_create authenticates directly after a successful probe   *)
(* select and creates nothing; after a probe that found no file it creates *)
(* the file, selects it and authenticates, in that order; after any other  *)
(* probe error, or a failed create or second select, it returns that error *)
(* and does not authenticate.                                              *)
C9_EnsureFile ==
    (pc # "idle" /\ pc # "store_pk" /\ log # <<>>) =>
       LET Op(i) == log[i].op
           Res(i) == log[i].res
           Stopped(n) == Len(log) = n /\ pc = "done" /\ r = Res(n)
       IN  /\ Op(1) = "select_file"
           /\ Count("authenticate", Len(log)) <= 1
           /\ Count("create_file", Len(log)) <= 1
           /\ CASE Res(1) = "SC_SUCCESS" ->
                     /\ Count("create_file", Len(log)) = 0
                     /\ Len(log) >= 2
                     /\ Op(2) = "authenticate"
                [] Res(1) = "SC_ERROR_FILE_NOT_FOUND" ->
                     /\ Len(log) >= 2
                     /\ Op(2) = "create_file"
                     /\ log[2].n = file.size
                     /\ IF ~Succeeded(log[2]) THEN Stopped(2)
                        ELSE /\ Len(log) >= 3
                             /\ Op(3) = "select_file"
                             /\ IF ~Succeeded(log[3]) THEN Stopped(3)
                                ELSE Len(log) >= 4 /\ Op(4) = "authenticate"
                [] OTHER -> Stopped(1)

\* the file was missing: created, selected, and authentication was tried
C9_Witness ==
    /\ Len(log) >= 4
    /\ log[1].res = "SC_ERROR_FILE_NOT_FOUND"
    /\ log[2].op = "create_file"
    /\ log[4].op = "authenticate"
    /\ card.kf

(* C4: gpk_pkfile_update_public never modifies an on-card record, at index *)
(* 2 or above, whose leading byte is the tag of no component of the key    *)
(* being written.                                                          *)
C4_UnmatchedRecordsUntouched ==
    [][pc = "update_public" =>
          \A n \in 2..Len(card.records) :
              (\A m \in 1..Len(p.public.components) :
                   p.public.components[m].tag # card.records[n][1])
                 => card'.records[n] = card.records[n]]_vars

(* C5: when gpk_pkfile_update_public returns success every public          *)
(* component was written exactly once: over one record whose leading byte  *)
(* was its tag, or appended.                                               *)
C5_EachComponentWrittenOnce ==
    [][(pc = "update_public" /\ pc' = "init_private") =>
          \A m \in 1..Len(p.public.components) :
              LET c == p.public.components[m]
                  writes == {i \in (Len(log) + 1)..Len(log') :
                                IsWrite(log'[i]) /\ log'[i].data = c.data}
              IN  /\ Cardinality(writes) = 1
                  /\ \A i \in writes :
                        log'[i].op = "update_record"
                           => card.records[log'[i].n][1] = c.tag]_vars

(* C6: the system record of a stored key holds the key's size class in its *)
(* key-size byte (0x00, 0x10, 0x11 for 512, 768, 1024 bits) and 0x00 for   *)
(* an RSA key, 0x01 for a DSA key in its algorithm byte.                   *)
C6_SystemRecordEncodesKey ==
    (pc = "done" /\ r = "SC_SUCCESS") =>
       /\ card.records[1][2] =
             (CASE p.bits = 512 -> 0 [] p.bits = 768 -> 16
                [] p.bits = 1024 -> 17 [] OTHER -> 255)
       /\ card.records[1][6] = (IF key.type = "EVP_PKEY_DSA" THEN 1 ELSE 0)

(* C7: in the slot table gpk_init_pinfile writes, every even row is a PIN  *)
(* row (byte 0 the PIN retry counter, byte 2 the pointer 0x8|(i+1) when    *)
(* row i+1 exists) and every odd row is a PUK row (byte 0 the PUK retry    *)
(* counter, byte 2 without pointer).                                       *)
C7_RowsAlternate ==
    \A k \in 1..Len(log) :
        log[k].op = "write_binary" =>
           LET data == log[k].data
               npins == Len(data) \div 8
               pin_attempts == IF profile.pin_attempts = 0 THEN 7
                               ELSE profile.pin_attempts
               puk_attempts == IF profile.puk_attempts = 0 THEN 3
                               ELSE profile.puk_attempts
           IN  \A i \in 0..(npins - 1) :
                   IF i % 2 = 0
                   THEN /\ data[8 * i + 1] = pin_attempts
                        /\ i + 1 < npins => data[8 * i + 3] = Or8(8, i + 1)
                   ELSE /\ data[8 * i + 1] = puk_attempts
                        /\ data[8 * i + 3] = 0

(* C8: the PIN file is locked only directly after the parent DF was        *)
(* selected and the authentication for LOCK succeeded, which follow the    *)
(* one write-binary that wrote the whole slot table; when the write, the   *)
(* select or the authentication fails no lock is issued and that error is  *)
(* returned; a successful init_application ends with the lock.             *)
C8_LockAfterWriteAndAuth ==
    arg.op = "init_app" =>
       /\ \A i \in 1..Len(log) :
             log[i].op = "lock" =>
                /\ i >= 4
                /\ log[i - 1].op = "authenticate" /\ Succeeded(log[i - 1])
                /\ log[i - 2].op = "select_file" /\ Succeeded(log[i - 2])
                /\ log[i - 3].op = "write_binary" /\ Succeeded(log[i - 3])
                /\ Len(log[i - 3].data) = card.pfsize
                /\ log[i - 3].n = card.pfsize
                /\ card.pfdata = log[i - 3].data
                /\ Count("write_binary", Len(log)) = 1
       /\ \A i \in 1..Len(log) :
             (/\ ~Succeeded(log[i])
              /\ \E j \in 1..i : log[j].op = "write_binary")
                => /\ i = Len(log)
                   /\ pc = "done"
                   /\ r = log[i].res
                   /\ Count("lock", i - 1) = 0
       /\ (pc = "done" /\ r = "SC_SUCCESS") =>
             /\ log[Len(log)].op = "lock"
             /\ Succeeded(log[Len(log)])
             /\ card.pflocked

\* an application initialised with the default table of 8 rows
C8_Witness ==
    /\ arg.op = "init_app"
    /\ pc = "done"
    /\ r = "SC_SUCCESS"
    /\ card.pflocked
    /\ Len(card.pfdata) = 64

(* C10: gpk_new_pin issues no change_reference_data and fails with         *)
(* TooManyObjects for every index >= 2 of the unsigned 32-bit range.       *)
C10_IndexAboveOneRejected ==
    (arg.op = "new_pin" /\ AtLeast(arg.index, 2)) =>
       /\ Count("change_reference_data", Len(log)) = 0
       /\ (pc = "done" /\ log # <<>> /\ Succeeded(log[1]))
             => r = "SC_ERROR_TOO_MANY_OBJECTS"

----------------------------------------------------------------------------
(* Reading the state gpk_new_key leaves *)

\* the key reached the encoder (gpk_new_file succeeded) and nothing more ran
Encoded == pc # "idle" /\ arg.op = "store_key" /\ file.valid /\ log = <<>>

Tags(part) == [m \in 1..Len(part.components) |-> part.components[m].tag]

Sizes(part) == [m \in 1..Len(part.components) |-> part.components[m].size]

\* an RSA key with modulus and exponent 65537
RsaF4 == key.type = "EVP_PKEY_RSA" /\ key.bits > 0 /\ key.f4

\* the keys the encoder rejects
Rejected ==
    \/ /\ key.type = "EVP_PKEY_RSA"
       /\ \/ key.bits = 0
          \/ ~key.f4
          \/ ~key.crt /\ ~key.d
    \/ /\ key.type = "EVP_PKEY_DSA"
       /\ \/ ~key.complete
          \/ key.bytes > 128

(* C11: for an RSA key with exponent 65537, gpk_encode_rsa_key yields the   *)
(* public part <<modulus 0x01, exponent 0x07>> and, as the private part:    *)
(* one component 0x05 of size 5*(bytes/2)+1 when the five CRT values are    *)
(* present and 5*(bytes/2) < 256; five components 0x51..0x55 of size        *)
(* bytes/2+1 when they are present and 5*(bytes/2) >= 256; one component    *)
(* 0x04 when a CRT value is missing and d is present.                       *)
C11_RsaEncodingSelected ==
    (Encoded /\ RsaF4 /\ (key.crt \/ key.d)) =>
       LET K == key.bytes \div 2
       IN  /\ Tags(p.public) = <<1, 7>>
           /\ IF ~key.crt
              THEN Tags(p.private) = <<4>>
              ELSE IF 5 * K < 256
              THEN /\ Tags(p.private) = <<5>>
                   /\ Sizes(p.private) = <<5 * K + 1>>
              ELSE /\ Tags(p.private) = <<81, 82, 83, 84, 85>>
                   /\ Sizes(p.private) = [m \in 1..5 |-> K + 1]

(* C12: when the encoder rejects the key (RSA without modulus or exponent,  *)
(* exponent other than 65537, CRT values incomplete and no d; DSA with a    *)
(* value missing or a modulus longer than 128 bytes), gpk_new_key returns   *)
(* InvalidArgument and the request has issued no card operation.            *)
C12_RejectedKeyNoCardIO ==
    (Encoded /\ Rejected) =>
       /\ pc = "done"
       /\ r = "SC_ERROR_INVALID_ARGUMENTS"
       /\ log = <<>>

(* C14: an RSA key with the five CRT values present, one of them longer     *)
(* than bytes/2 bytes, makes key encoding and store_key return              *)
(* InvalidArgument.                                                         *)
C14_OversizedIntegerRejected ==
    (Encoded /\ RsaF4 /\ key.crt /\ key.bytes <= TempSize
       /\ key.widest > key.bytes \div 2) =>
       /\ pc = "done"
       /\ r = "SC_ERROR_INVALID_ARGUMENTS"

----------------------------------------------------------------------------
\* the operations whose failure the driver reads as "not there yet": the
\* probe select of gpk_pkfile_create answering file-not-found, and the reads
\* of gpk_pkfile_init_public and gpk_pkfile_update_public
IsProbe(i) ==
    \/ log[i].op = "read_record"
    \/ /\ log[i].op = "select_file"
       /\ i = 1
       /\ arg.op = "store_key"
       /\ log[i].res = "SC_ERROR_FILE_NOT_FOUND"

(* C13 as stated: once any card operation returns an error, the request     *)
(* returns that error at once; no card operation follows it.                *)
C13_EveryErrorEndsRequest ==
    \A i \in 1..Len(log) :
       ~Succeeded(log[i]) =>
          /\ i = Len(log)
          /\ pc = "done"
          /\ r = log[i].res

(* C13, amended: once a card operation other than a probe returns an error, *)
(* the request returns that error at once and no card operation follows it. *)
(* A probe that fails is not repeated on the same target before something   *)
(* changed: a select answering file-not-found is followed by the creation   *)
(* of the file, a record read that fails by an append or by nothing.        *)
C13_ErrorsEndRequestButProbes ==
    \A i \in 1..Len(log) :
       ~Succeeded(log[i]) =>
          IF IsProbe(i)
          THEN i < Len(log) =>
                 IF log[i].op = "select_file"
                 THEN log[i + 1].op = "create_file"
                 ELSE log[i + 1].op \in {"append_record", "pkinit"}
          ELSE /\ i = Len(log)
               /\ pc = "done"
               /\ r = log[i].res

\* an append failed after a read found no further record and a component
\* had been appended: the request ended there with that error
C13_Witness ==
    /\ pc = "done"
    /\ Len(log) >= 3
    /\ log[Len(log)].op = "append_record"
    /\ ~Succeeded(log[Len(log)])
    /\ r = log[Len(log)].res
    /\ log[Len(log) - 1].op = "append_record"
    /\ log[Len(log) - 2].op = "read_record"
    /\ ~Succeeded(log[Len(log) - 2])

----------------------------------------------------------------------------
\* the entries of the key file's crypto ACL by method
ChvEntries == {i \in 1..Len(file.acl) : file.acl[i].method = "SC_AC_CHV"}

OtherEntries ==
    {i \in 1..Len(file.acl) :
        file.acl[i].method \notin {"SC_AC_NONE", "SC_AC_NEVER", "SC_AC_CHV"}}

\* gpk_pkfile_create succeeded and the request ended without another card
\* operation: gpk_pkfile_init_public returned before its read of record 1
EndedBeforeRead ==
    /\ pc = "done"
    /\ log # <<>>
    /\ log[Len(log)].op = "authenticate"
    /\ Succeeded(log[Len(log)])

(* C15: gpk_pkfile_init_public skips the NONE and NEVER entries of the      *)
(* crypto ACL; with a second CHV entry, or an entry of another method, it   *)
(* fails NotSupported having read and written no record; with no CHV entry  *)
(* the flag and PIN-reference bytes of the system record are 0x00, with one *)
(* CHV entry they are 0x40 and the low four bits of the reference, in the   *)
(* high nibble.                                                             *)
C15_PinProtectionFromAcl ==
    (arg.op = "store_key" /\ file.valid) =>
       IF Cardinality(ChvEntries) >= 2 \/ OtherEntries # {}
       THEN /\ \A i \in 1..Len(log) : Phase(log[i]) = 1
            /\ EndedBeforeRead => r = "SC_ERROR_NOT_SUPPORTED"
       ELSE \A i \in 1..Len(log) :
               IsSysWrite(log[i]) =>
                  IF ChvEntries = {}
                  THEN log[i].data[3] = 0 /\ log[i].data[4] = 0
                  ELSE LET ref == file.acl[CHOOSE j \in ChvEntries : TRUE].key_ref
                       IN  /\ log[i].data[3] = 64
                           /\ log[i].data[4] = (ref % 16) * 16

\* a system record written for an ACL of NEVER, CHV 0x1a, NONE
C15_Witness ==
    /\ arg.op = "store_key"
    /\ Len(file.acl) = 3
    /\ \E i \in 1..Len(log) :
          /\ IsSysWrite(log[i])
          /\ Succeeded(log[i])
          /\ log[i].data[3] = 64
          /\ log[i].data[4] = 160

----------------------------------------------------------------------------
(* C16: when gpk_pkfile_init_public reads record 1, then: a record 1 that   *)
(* is not 7 bytes with first byte zero makes it fail ObjectNotValid, the    *)
(* request ends and has modified or appended no record; a valid record 1 is *)
(* updated in place, the number of records and the other records staying as *)
(* they were; when record 1 cannot be read the system record is appended.   *)
C16_SystemRecordSlot ==
    [][(pc = "init_public" /\ Len(log') > Len(log)) =>
          LET n == Len(log)
              recs == card.records
          IN  /\ log'[n + 1].op = "read_record"
              /\ log'[n + 1].n = 1
              /\ IF recs = <<>>
                 THEN /\ Len(log') = n + 2
                      /\ log'[n + 2].op = "append_record"
                      /\ IsSysWrite(log'[n + 2])
                      /\ card'.records =
                            IF Succeeded(log'[n + 2])
                            THEN <<log'[n + 2].data>> ELSE recs
                 ELSE IF Len(recs[1]) # 7 \/ recs[1][1] # 0
                 THEN /\ Len(log') = n + 1
                      /\ r' = "SC_ERROR_OBJECT_NOT_VALID"
                      /\ pc' = "done"
                      /\ card'.records = recs
                      /\ \A i \in 1..Len(log') : ~IsWrite(log'[i])
                 ELSE /\ Len(log') = n + 2
                      /\ log'[n + 2].op = "update_record"
                      /\ log'[n + 2].n = 1
                      /\ IsSysWrite(log'[n + 2])
                      /\ Len(card'.records) = Len(recs)
                      /\ \A k \in 2..Len(recs) : card'.records[k] = recs[k]
                      /\ card'.records[1] =
                            IF Succeeded(log'[n + 2])
                            THEN log'[n + 2].data ELSE recs[1]
      ]_vars

\* a key file whose record 1 is no system record: the request ended
\* ObjectNotValid and wrote nothing
C16_Witness ==
    /\ pc = "done"
    /\ r = "SC_ERROR_OBJECT_NOT_VALID"
    /\ log[Len(log)].op = "read_record"
    /\ log[Len(log)].n = 1
    /\ Len(card.records) >= 2
    /\ card.records[1][1] # 0
    /\ \A i \in 1..Len(log) : ~IsWrite(log[i])

----------------------------------------------------------------------------
\* the smallest multiple of m that is >= x
RoundUp(x, m) == ((x + m - 1) \div m) * m

RECURSIVE Total(_)
\* the sum of a sequence of numbers
Total(s) == IF s = <<>> THEN 0 ELSE Head(s) + Total(Tail(s))

\* the positions in the log of the private loads that succeeded
Loads == {i \in 1..Len(log) : log[i].op = "pkload" /\ Succeeded(log[i])}

\* the first private component too large for the working buffer, 0 if none
FirstOversized ==
    LET big == {m \in 1..Len(p.private.components) :
                   p.private.components[m].size + 8 > DataBufSize}
    IN  IF big = {} THEN 0
        ELSE CHOOSE m \in big : \A k \in big : m <= k

(* C17: every block handed to load-private-block is the s payload bytes of  *)
(* a private component with s + 8 <= 256, then the checksum 0xFF XOR every  *)
(* payload byte, then zeroes up to the smallest multiple of 8 >= s + 1;     *)
(* the writer that reaches a component with s + 8 > 256 returns             *)
(* BufferTooSmall with no verify and no load made for that component.       *)
C17_PrivateBlockLayout ==
    /\ \A i \in 1..Len(log) :
          log[i].op = "pkload" =>
             LET s == log[i].n
                 blk == log[i].data
             IN  /\ s + 8 <= DataBufSize
                 /\ Len(blk) = RoundUp(s + 1, 8)
                 /\ SubSeq(blk, 1, s) \in PrivPayloads
                 /\ blk[s + 1] = XorFold(255, SubSeq(blk, 1, s))
                 /\ \A k \in (s + 2)..Len(blk) : blk[k] = 0
    /\ (/\ pc = "done"
        /\ profile.secret
        /\ Count("pkinit", Len(log)) = 1
        /\ \E i \in 1..Len(log) : log[i].op = "pkinit" /\ Succeeded(log[i])
        /\ FirstOversized # 0
        /\ Cardinality(Loads) = FirstOversized - 1) =>
          /\ r = "SC_ERROR_BUFFER_TOO_SMALL"
          /\ Count("verify", Len(log)) = FirstOversized - 1
          /\ Count("pkload", Len(log)) = FirstOversized - 1

\* a block loaded for a component of 161 bytes: 168 bytes, 6 of them padding
C17_Witness ==
    \E i \in Loads :
       /\ log[i].n = 161
       /\ Len(log[i].data) = 168
       /\ log[i].data[162] # 0

(* C20: the lengths of the private blocks loaded never add up to more than  *)
(* the length the private area was initialised with less its 8 bytes, that  *)
(* length being 8 + the sum of round_up(3 + size, 8) over the private       *)
(* components; and the size a key file is created with is the planned       *)
(* public length + 8 + the planned private length + 8.                      *)
C20_PrivateAreaHoldsBlocks ==
    LET privsizes == Sizes(p.private)
        pubsizes == Sizes(p.public)
        privlen == 8 + Total([m \in 1..Len(privsizes) |->
                                 RoundUp(3 + privsizes[m], 8)])
        publen == RoundUp(8 + Total([m \in 1..Len(pubsizes) |->
                                        2 + pubsizes[m]]), 4)
        sum == Total([k \in 1..Len(log) |->
                        IF k \in Loads THEN Len(log[k].data) ELSE 0])
    IN  \A i \in 1..Len(log) :
           /\ log[i].op = "pkinit" =>
                 /\ log[i].n = privlen
                 /\ sum <= log[i].n - 8
           /\ log[i].op = "create_file" =>
                 log[i].n = publen + 8 + privlen + 8

\* a key file created, and all five CRT components of a 1024-bit key loaded
C20_Witness ==
    /\ pc = "done"
    /\ r = "SC_SUCCESS"
    /\ Cardinality(Loads) = 5
    /\ \E i \in 1..Len(log) : log[i].op = "create_file" /\ Succeeded(log[i])

----------------------------------------------------------------------------
(* C18: in every row of the slot table gpk_init_pinfile writes, byte 3 is   *)
(* the complement of the XOR of the other seven bytes of the row.           *)
C18_RowsFold ==
    \A i \in 1..Len(log) :
       log[i].op = "write_binary" =>
          \A row \in 0..(Len(log[i].data) \div 8 - 1) :
             LET blk == SubSeq(log[i].data, 8 * row + 1, 8 * row + 8)
                 rest == <<blk[1], blk[2], blk[3], blk[5], blk[6], blk[7],
                           blk[8]>>
             IN  blk[4] = Not8(XorFold(0, rest))

\* the sizes gpk_pkfile_keybits accepts
SupportedBits == {512, 768, 1024}

(* C19: store_key of an RSA key whose modulus is not 512, 768 or 1024 bits  *)
(* issues no operation that changes the card (create_file, record update or *)
(* append, private-area initialisation, private load) and, no card          *)
(* operation failing, fails NotSupported: a key file absent before the      *)
(* request is absent after it.                                              *)
C19_UnsupportedSizeLeavesCard ==
    (/\ arg.op = "store_key"
     /\ key.type = "EVP_PKEY_RSA"
     /\ key.bits \notin SupportedBits
     /\ log # <<>>) =>
       /\ \A i \in 1..Len(log) :
             log[i].op \notin {"create_file", "update_record",
                               "append_record", "pkinit", "pkload"}
       /\ (pc = "done" /\ \A i \in 1..Len(log) :
                             Succeeded(log[i]) \/ IsProbe(i))
             => r = "SC_ERROR_NOT_SUPPORTED"

----------------------------------------------------------------------------
(* C21: gpk_init_pinfile fills and writes at most GPK_MAX_PINS rows: every  *)
(* write-binary of the slot table passes at most 8 * GPK_MAX_PINS bytes,    *)
(* and the request does not fault building the table, for every PIN file    *)
(* size of the profile.                                                     *)
C21_TableWithinBuffer ==
    arg.op = "init_app" =>
       /\ r # "SIGSEGV"
       /\ \A i \in 1..Len(log) :
             log[i].op = "write_binary" =>
                /\ log[i].n <= 8 * GPK_MAX_PINS
                /\ Len(log[i].data) <= 8 * GPK_MAX_PINS

(* C22: when gpk_new_file fails (file type not supported, or no key file    *)
(* template in the profile) gpk_new_key returns that error, and neither     *)
(* reads the path of the key file nor releases it.                          *)
C22_NoKeyFileNoAccess ==
    (/\ arg.op = "store_key"
     /\ pc = "done"
     /\ key.type \in {"EVP_PKEY_RSA", "EVP_PKEY_DSA"}
     /\ ~file.valid) =>
       r \in {"SC_ERROR_NOT_SUPPORTED", "SC_ERROR_INVALID_ARGUMENTS"}

----------------------------------------------------------------------------
(* C23: the system-record and public-component writers, run a second time   *)
(* with a fresh encoding of the same key on the key file a first successful *)
(* run left, append no record and leave the records of the file, their      *)
(* number, order and contents, as the first run left them.                  *)
C23_SecondRunChangesNothing ==
    pc = "redone" =>
       /\ card.records = arg.before
       /\ \A i \in 1..Len(log) : log[i].op # "append_record"

\* a second run that went through a file of five records or more, updating
\* the system record and at least two component records in place
C23_Witness ==
    /\ pc = "redone"
    /\ r = "SC_SUCCESS"
    /\ Len(card.records) >= 5
    /\ Count("update_record", Len(log)) >= 3

====
